---- MODULE Spec2Model ----
(***************************************************************************)
(* trans.c - matrix transpose B = A^T.                                     *)
(*                                                                         *)
(* One call of one function of trans.c on caller-owned buffers             *)
(* int A[N][M] and int B[M][N].  Every loop-body execution is one step, so *)
(* the order of the accesses to A and B is the order of the source.        *)
(***************************************************************************)
EXTENDS Integers, Sequences, FiniteSets, TLC

VARIABLES
    fn,       \* the function of trans.c being called
    M, N,     \* its arguments M (columns of A) and N (rows of A)
    akind,    \* which content the caller filled A with
    bkind,    \* which content the buffer B held before the call
    A, B,     \* the buffers, A[r][c] with r < N, c < M; B[r][c] with r < M, c < N
    pc,       \* "call", "inner", "rowend", "base", "verify", "done"
    branch,   \* the loop nest transpose_submit selected
    i, j, ii, jj,  \* the loop variables of the running function
    stderr,   \* the diagnostics written with fprintf(stderr, ...)
    ret,      \* the value is_transpose returned (-1: nothing returned)
    lastA,    \* the subscripts <<r, c>> of the A access of the last step, or <<>>
    lastB,    \* the subscripts <<r, c>> of the B access of the last step, or <<>>
    bop,      \* "read" / "write": what that B access was; "none" without one
    site,     \* the statement the last step executed
    nwrites,  \* number of stores to B so far
    nreadsB,  \* number of loads from B so far
    wcount    \* wcount[r][c]: number of stores that landed in cell B[r][c]

vars == <<fn, M, N, akind, bkind, A, B, pc, branch, i, j, ii, jj, stderr, ret,
          lastA, lastB, bop, site, nwrites, nreadsB, wcount>>

(***************************************************************************)
(* Bounds of the checked inputs.                                           *)
(***************************************************************************)
\* dimensions -1 .. SmallMax are tried next to the tuned sizes 32 and 64
SmallMax == 2
\* number of different fillings of A
AKinds == 2
\* number of different prior contents of B handed to is_transpose
BKinds == 4

(***************************************************************************)
(* Program constants.                                                      *)
(***************************************************************************)
Dim32 == 32
Dim64 == 64
Tile8 == 8
Tile4 == 4

DimMsg == "Invalid matrix dimensions: M and N must be positive integers."
CompatMsg == "Input matrices must have square dimensions for transposition."

Transposers == {"transpose_submit", "trans_32x32", "trans_32x64", "trans_64x64", "trans"}
Functions == Transposers \cup {"is_transpose"}

Dims == (-1 .. SmallMax) \cup {Dim32, Dim64}

(***************************************************************************)
(* The caller's buffers.                                                   *)
(***************************************************************************)
\* Filling k of A: filling 0 gives every cell its own value (for M = N = 2
\* it is [[1,2],[3,4]]); the others repeat values.
AFill(k, m, r, c) ==
    IF k = 0 THEN r * m + c + 1 ELSE (r * (k + 1) + c) % (k + 2)

AInit(m, n, k) == [r \in 0 .. n - 1 |-> [c \in 0 .. m - 1 |-> AFill(k, m, r, c)]]

\* Prior content k of B, cell B[r][c] facing A[c][r]: 0 is stale data that
\* equals no cell of A, 1 is the exact transpose, 2 differs from the
\* transpose in the last cell of the scan only, k >= 3 differs in every
\* cell whose scan index leaves remainder k modulo k + 2.
BFill(k, ka, m, n, r, c) ==
    LET a == AFill(ka, m, c, r)
        idx == c * m + r
    IN  IF k = 0 THEN 0 - (r * n + c + 1)
        ELSE IF k = 1 THEN a
        ELSE IF k = 2 THEN (IF idx = m * n - 1 THEN a + 1 ELSE a)
        ELSE IF idx % (k + 2) = k THEN a + 1 ELSE a

BInit(m, n, ka, k) ==
    [r \in 0 .. m - 1 |-> [c \in 0 .. n - 1 |-> BFill(k, ka, m, n, r, c)]]

InA(r, c) == 0 <= r /\ r < N /\ 0 <= c /\ c < M
InB(r, c) == 0 <= r /\ r < M /\ 0 <= c /\ c < N

\* A[r][c] is the int at offset r*M + c of A.  A subscript pair outside the
\* declared bounds whose offset is inside the buffer reads the cell at that
\* offset; an offset outside the buffer reads memory the program does not own.
UndefVals == {0, 1}
LoadA(r, c) ==
    LET off == r * M + c
    IN  IF M > 0 /\ N > 0 /\ 0 <= off /\ off < N * M
        THEN {A[off \div M][off % M]}
        ELSE UndefVals

LoadB(r, c) ==
    LET off == r * N + c
    IN  IF M > 0 /\ N > 0 /\ 0 <= off /\ off < M * N
        THEN {B[off \div N][off % N]}
        ELSE UndefVals

\* B[r][c] = v stores at offset r*N + c of B; a store outside the buffer
\* changes no cell of B.
Landed(r, c) ==
    LET off == r * N + c
    IN  M > 0 /\ N > 0 /\ 0 <= off /\ off < M * N

StoreInto(buf, r, c, v) ==
    LET off == r * N + c
    IN  IF Landed(r, c)
        THEN [buf EXCEPT ![off \div N][off % N] = v]
        ELSE buf

Bump(cnt, r, c) ==
    LET off == r * N + c
    IN  IF Landed(r, c)
        THEN [cnt EXCEPT ![off \div N][off % N] = @ + 1]
        ELSE cnt

\* one statement B[r][c] = A[ra][ca], executed at statement s
Copy(ra, ca, r, c, s) ==
    /\ \E v \in LoadA(ra, ca) : B' = StoreInto(B, r, c, v)
    /\ wcount' = Bump(wcount, r, c)
    /\ nwrites' = nwrites + 1
    /\ lastA' = <<ra, ca>>
    /\ lastB' = <<r, c>>
    /\ bop' = "write"
    /\ site' = s
    /\ UNCHANGED <<A, nreadsB>>

\* a step of statement s that touches neither buffer
NoAccess(s) ==
    /\ lastA' = <<>>
    /\ lastB' = <<>>
    /\ bop' = "none"
    /\ site' = s
    /\ UNCHANGED <<A, B, wcount, nwrites, nreadsB>>

Goto(p) ==
    /\ pc' = p.pc
    /\ i' = p.i
    /\ j' = p.j
    /\ ii' = p.ii
    /\ jj' = p.jj

Here(p) == [pc |-> p, i |-> i, j |-> j, ii |-> ii, jj |-> jj]

Init ==
    /\ fn \in Functions
    /\ M \in Dims
    /\ N \in Dims
    /\ akind \in 0 .. AKinds - 1
    /\ bkind \in (IF fn = "is_transpose" THEN 0 .. BKinds - 1 ELSE {0})
    /\ A = AInit(M, N, akind)
    /\ B = BInit(M, N, akind, bkind)
    /\ pc = "call"
    /\ branch = "none"
    /\ i = 0 /\ j = 0 /\ ii = 0 /\ jj = 0
    /\ stderr = <<>>
    /\ ret = -1
    /\ lastA = <<>>
    /\ lastB = <<>>
    /\ bop = "none"
    /\ site = "none"
    /\ nwrites = 0
    /\ nreadsB = 0
    /\ wcount = [r \in 0 .. M - 1 |-> [c \in 0 .. N - 1 |-> 0]]

(***************************************************************************)
(* The tiled loop nests                                                    *)
(*   for (i = 0; i < N; i += ti)                                           *)
(*     for (j = 0; j < M; j += tj)                                         *)
(*       for (ii = i; ii < i + ti; ii++) {                                 *)
(*         for (jj = j; jj < j + tj; jj++) <inner>                         *)
(*         <rowend>                                                        *)
(*       }                                                                 *)
(***************************************************************************)
\* the outer loop reaches i = x
EnterI(x) ==
    IF x < N /\ 0 < M
    THEN [pc |-> "inner", i |-> x, j |-> 0, ii |-> x, jj |-> 0]
    ELSE [pc |-> "done", i |-> x, j |-> 0, ii |-> ii, jj |-> jj]

\* ii++ and the loop tests that follow it
AdvanceRow(ti, tj) ==
    IF ii + 1 < i + ti
    THEN [pc |-> "inner", i |-> i, j |-> j, ii |-> ii + 1, jj |-> j]
    ELSE IF j + tj < M
    THEN [pc |-> "inner", i |-> i, j |-> j + tj, ii |-> i, jj |-> j + tj]
    ELSE EnterI(i + ti)

\* if (!(ii == jj && i == j)) guards the copy of the square nests
SkipCell_never(defer) == FALSE
SkipCell(defer) == defer /\ ii = jj /\ i = j

\* if (i == j) guards the copy of the diagonal cell after the jj loop
RowHasDiagonal_never == FALSE
RowHasDiagonal == i = j

\* one execution of the body of the jj loop, jj++ and the loop tests
TiledInner(ti, tj, defer) ==
    /\ pc = "inner"
    /\ IF SkipCell(defer) THEN NoAccess("inner") ELSE Copy(ii, jj, jj, ii, "inner")
    /\ Goto(IF jj + 1 < j + tj
            THEN [pc |-> "inner", i |-> i, j |-> j, ii |-> ii, jj |-> jj + 1]
            ELSE IF defer
            THEN [pc |-> "rowend", i |-> i, j |-> j, ii |-> ii, jj |-> jj + 1]
            ELSE AdvanceRow(ti, tj))

\* the statement after the jj loop of the square nests, then ii++
TiledRowEnd(ti, tj) ==
    /\ pc = "rowend"
    /\ IF RowHasDiagonal THEN Copy(ii, ii, ii, ii, "rowend") ELSE NoAccess("rowend")
    /\ Goto(AdvanceRow(ti, tj))

Is32x32_anyN(m, n) == m = Dim32 /\ n > 0
Is32x32(m, n) == m = Dim32 /\ n = Dim32
Is32x64(m, n) == n = Dim64 /\ m = Dim32
Is64x64(m, n) == m = Dim64 /\ n = Dim64

TileRows(b) == IF b = "64x64" THEN Tile4 ELSE Tile8
TileCols(b) == IF b = "32x32" THEN Tile8 ELSE Tile4
Defers(b) == b # "32x64"

(***************************************************************************)
(* transpose_submit                                                        *)
(***************************************************************************)
InvalidDims_strict(m, n) == m < 0 \/ n < 0
InvalidDims(m, n) == m <= 0 \/ n <= 0

Incompatible_all(m, n) == (n = Dim32 \/ n = Dim64) /\ (m = Dim32 \/ m = Dim64)
Incompatible(m, n) == (n = Dim32 \/ n = Dim64) /\ m = Dim32

\* the three if statements that follow the checks; at most one holds
SubmitBranch(m, n) ==
    IF Is32x32(m, n) THEN "32x32"
    ELSE IF Is32x64(m, n) THEN "32x64"
    ELSE IF Is64x64(m, n) THEN "64x64"
    ELSE "none"

transpose_submit_call ==
    /\ fn = "transpose_submit"
    /\ pc = "call"
    /\ IF InvalidDims(M, N)
       THEN /\ stderr' = Append(stderr, DimMsg)
            /\ branch' = "none"
            /\ Goto(Here("done"))
       ELSE IF Incompatible(M, N)
       THEN /\ stderr' = Append(stderr, CompatMsg)
            /\ branch' = "none"
            /\ Goto(Here("done"))
       ELSE /\ stderr' = stderr
            /\ branch' = SubmitBranch(M, N)
            /\ Goto(IF SubmitBranch(M, N) = "none" THEN Here("done") ELSE EnterI(0))
    /\ NoAccess("none")
    /\ UNCHANGED <<fn, M, N, akind, bkind, ret>>

transpose_submit_inner ==
    /\ fn = "transpose_submit"
    /\ TiledInner(TileRows(branch), TileCols(branch), Defers(branch))
    /\ UNCHANGED <<fn, M, N, akind, bkind, branch, stderr, ret>>

transpose_submit_rowend ==
    /\ fn = "transpose_submit"
    /\ TiledRowEnd(TileRows(branch), TileCols(branch))
    /\ UNCHANGED <<fn, M, N, akind, bkind, branch, stderr, ret>>

(***************************************************************************)
(* trans_32x32                                                             *)
(***************************************************************************)
trans_32x32_call ==
    /\ fn = "trans_32x32"
    /\ pc = "call"
    /\ Goto(IF Is32x32(M, N) THEN EnterI(0) ELSE Here("done"))
    /\ NoAccess("none")
    /\ UNCHANGED <<fn, M, N, akind, bkind, branch, stderr, ret>>

trans_32x32_inner ==
    /\ fn = "trans_32x32"
    /\ TiledInner(Tile8, Tile8, TRUE)
    /\ UNCHANGED <<fn, M, N, akind, bkind, branch, stderr, ret>>

trans_32x32_rowend ==
    /\ fn = "trans_32x32"
    /\ TiledRowEnd(Tile8, Tile8)
    /\ UNCHANGED <<fn, M, N, akind, bkind, branch, stderr, ret>>

(***************************************************************************)
(* trans_32x64                                                             *)
(***************************************************************************)
trans_32x64_call ==
    /\ fn = "trans_32x64"
    /\ pc = "call"
    /\ Goto(IF Is32x64(M, N) THEN EnterI(0) ELSE Here("done"))
    /\ NoAccess("none")
    /\ UNCHANGED <<fn, M, N, akind, bkind, branch, stderr, ret>>

trans_32x64_inner ==
    /\ fn = "trans_32x64"
    /\ TiledInner(Tile8, Tile4, FALSE)
    /\ UNCHANGED <<fn, M, N, akind, bkind, branch, stderr, ret>>

(***************************************************************************)
(* trans_64x64                                                             *)
(***************************************************************************)
trans_64x64_call ==
    /\ fn = "trans_64x64"
    /\ pc = "call"
    /\ Goto(IF Is64x64(M, N) THEN EnterI(0) ELSE Here("done"))
    /\ NoAccess("none")
    /\ UNCHANGED <<fn, M, N, akind, bkind, branch, stderr, ret>>

trans_64x64_inner ==
    /\ fn = "trans_64x64"
    /\ TiledInner(Tile4, Tile4, TRUE)
    /\ UNCHANGED <<fn, M, N, akind, bkind, branch, stderr, ret>>

trans_64x64_rowend ==
    /\ fn = "trans_64x64"
    /\ TiledRowEnd(Tile4, Tile4)
    /\ UNCHANGED <<fn, M, N, akind, bkind, branch, stderr, ret>>

(***************************************************************************)
(* trans and is_transpose: for (i = 0; i < N; i++) for (j = 0; j < M; j++) *)
(***************************************************************************)
\* the scan starts: the first cell, or the end when a loop is empty
ScanStart(p) ==
    IF 0 < N /\ 0 < M
    THEN [pc |-> p, i |-> 0, j |-> 0, ii |-> ii, jj |-> jj]
    ELSE Here("done")

\* j++ and the loop tests that follow it
ScanNext(p) ==
    IF j + 1 < M
    THEN [pc |-> p, i |-> i, j |-> j + 1, ii |-> ii, jj |-> jj]
    ELSE IF i + 1 < N
    THEN [pc |-> p, i |-> i + 1, j |-> 0, ii |-> ii, jj |-> jj]
    ELSE [pc |-> "done", i |-> i + 1, j |-> j + 1, ii |-> ii, jj |-> jj]

trans_call ==
    /\ fn = "trans"
    /\ pc = "call"
    /\ Goto(ScanStart("base"))
    /\ NoAccess("none")
    /\ UNCHANGED <<fn, M, N, akind, bkind, branch, stderr, ret>>

\* the cell of B that tmp = A[i][j] is stored to
BaseTarget_same == <<i, j>>
BaseTarget == <<j, i>>

trans_step ==
    /\ fn = "trans"
    /\ pc = "base"
    /\ Copy(i, j, BaseTarget[1], BaseTarget[2], "base")
    /\ Goto(ScanNext("base"))
    /\ UNCHANGED <<fn, M, N, akind, bkind, branch, stderr, ret>>

is_transpose_call ==
    /\ fn = "is_transpose"
    /\ pc = "call"
    /\ Goto(ScanStart("verify"))
    /\ ret' = IF ScanStart("verify").pc = "done" THEN 1 ELSE ret
    /\ NoAccess("none")
    /\ UNCHANGED <<fn, M, N, akind, bkind, branch, stderr>>

Mismatch_greater(a, b) == a > b
Mismatch(a, b) == a # b

is_transpose_step ==
    /\ fn = "is_transpose"
    /\ pc = "verify"
    /\ \E a \in LoadA(i, j), b \in LoadB(j, i) :
          IF Mismatch(a, b)
          THEN ret' = 0 /\ Goto(Here("done"))
          ELSE /\ Goto(ScanNext("verify"))
               /\ ret' = IF ScanNext("verify").pc = "done" THEN 1 ELSE ret
    /\ lastA' = <<i, j>>
    /\ lastB' = <<j, i>>
    /\ bop' = "read"
    /\ site' = "verify"
    /\ nreadsB' = nreadsB + 1
    /\ UNCHANGED <<fn, M, N, akind, bkind, A, B, branch, stderr, wcount, nwrites>>

Next ==
    \/ transpose_submit_call
    \/ transpose_submit_inner
    \/ transpose_submit_rowend
    \/ trans_32x32_call
    \/ trans_32x32_inner
    \/ trans_32x32_rowend
    \/ trans_32x64_call
    \/ trans_32x64_inner
    \/ trans_64x64_call
    \/ trans_64x64_inner
    \/ trans_64x64_rowend
    \/ trans_call
    \/ trans_step
    \/ is_transpose_call
    \/ is_transpose_step

Spec == Init /\ [][Next]_vars

(***************************************************************************)
(* Properties.                                                             *)
(***************************************************************************)
Supported(m, n) ==
    \/ (m = 32 /\ n = 32)
    \/ (m = 32 /\ n = 64)
    \/ (m = 64 /\ n = 64)

\* B[j][i] == A[i][j] for all i in [0,N), j in [0,M)
Transposed ==
    \A r \in 0 .. N - 1 : \A c \in 0 .. M - 1 : B[c][r] = A[r][c]

AUnchanged == A = AInit(M, N, akind)
BUnchanged == B = BInit(M, N, akind, bkind)

Emitted(msg) == \E k \in 1 .. Len(stderr) : stderr[k] = msg

\* the call is of a shape-specific transposer on its own shape
OwnShapeCall ==
    \/ (fn = "trans_32x32" /\ M = 32 /\ N = 32)
    \/ (fn = "trans_32x64" /\ M = 32 /\ N = 64)
    \/ (fn = "trans_64x64" /\ M = 64 /\ N = 64)

\* the call is of a square tiled transposer on its own shape
SquareCall ==
    \/ (fn = "trans_32x32" /\ M = 32 /\ N = 32)
    \/ (fn = "trans_64x64" /\ M = 64 /\ N = 64)

\* the tile extents of the loop nest the running function is in
CurTileRows ==
    IF fn = "transpose_submit" THEN TileRows(branch)
    ELSE IF fn = "trans_64x64" THEN 4 ELSE 8
CurTileCols ==
    IF fn = "transpose_submit" THEN TileCols(branch)
    ELSE IF fn = "trans_32x32" THEN 8 ELSE 4

\* first row or column of the square tile that holds row or column x
TileBase(x) == x - (x % CurTileRows)
TileRange(x) == TileBase(x) .. TileBase(x) + CurTileRows - 1

\* C1: after transpose_submit returns from a call on a supported shape,
\* B is the transpose of A.
C1_SubmitTransposesSupported ==
    (fn = "transpose_submit" /\ pc = "done" /\ Supported(M, N))
        => Transposed

\* C2: after transpose_submit returns from a call with M > 0, N > 0 on a
\* shape that is not supported, B is as before the call and a diagnostic
\* was emitted.
C2_SubmitUnsupportedNoOpWithDiagnostic ==
    (fn = "transpose_submit" /\ pc = "done" /\ M > 0 /\ N > 0 /\ ~Supported(M, N))
        => /\ nwrites = 0
           /\ BUnchanged
           /\ Len(stderr) > 0

\* C3: called with M <= 0 or N <= 0, transpose_submit emits the dimension
\* diagnostic and returns at once: no loop body ever runs and nothing is
\* stored to B.
C3_SubmitNonPositive ==
    (fn = "transpose_submit" /\ pc # "call" /\ (M <= 0 \/ N <= 0))
        => /\ pc = "done"
           /\ stderr = <<DimMsg>>
           /\ site = "none"
           /\ branch = "none"
           /\ nwrites = 0
           /\ BUnchanged

C3_Witness ==
    /\ fn = "transpose_submit"
    /\ pc = "done"
    /\ M = 32
    /\ N = 0
    /\ stderr = <<DimMsg>>
    /\ nwrites = 0

\* C4: after a shape-specific transposer returns from a call on its own
\* shape, B[j][i] = A[i][j] for every i < N, j < M, the diagonal cells
\* included.
C4_ShapeSpecificTransposes ==
    (OwnShapeCall /\ pc = "done") => (Transposed /\ AUnchanged)

C4_Witness ==
    /\ fn = "trans_32x32"
    /\ pc = "done"
    /\ M = 32 /\ N = 32
    /\ akind = 0
    /\ B[5][5] = 5 * 32 + 5 + 1
    /\ B[5][6] = 6 * 32 + 5 + 1
    /\ B[31][0] = 32

\* the cells A[i][j] that differ from B[j][i]
MismatchCells ==
    {p \in (0 .. N - 1) \X (0 .. M - 1) : A[p[1]][p[2]] # B[p[2]][p[1]]}

\* position of A[r][c] in the scan with i outer and j inner
ScanIndex(p) == p[1] * M + p[2]

\* C5: is_transpose returns 1 exactly when every A[i][j] equals B[j][i];
\* otherwise it returns 0 right after comparing the first differing cell of
\* the scan (i outer, j inner), having compared no cell after it; it stores
\* to neither buffer.
C5_IsTranspose ==
    (fn = "is_transpose")
        => /\ nwrites = 0
           /\ (pc # "done" => ret = -1)
           /\ (pc = "done" =>
                 /\ ret \in {0, 1}
                 /\ (ret = 1 <=> MismatchCells = {})
                 /\ (ret = 0 =>
                        /\ lastA \in MismatchCells
                        /\ \A q \in MismatchCells : ScanIndex(lastA) <= ScanIndex(q)
                        /\ nreadsB = ScanIndex(lastA) + 1)
                 /\ AUnchanged
                 /\ BUnchanged)

C5_Witness ==
    /\ fn = "is_transpose"
    /\ pc = "done"
    /\ M = 32 /\ N = 32
    /\ bkind = 3
    /\ ret = 0
    /\ lastA = <<0, 3>>
    /\ nreadsB = 4
    /\ A[0][8] # B[8][0]

\* C6: for every M > 0 and N > 0 the baseline trans returns with
\* B[j][i] = A[i][j] for every i < N, j < M and with A as it was.
C6_BaselineTransposes ==
    (fn = "trans" /\ pc = "done" /\ M > 0 /\ N > 0)
        => (Transposed /\ AUnchanged)

C6_Witness ==
    /\ fn = "trans"
    /\ pc = "done"
    /\ M = 2 /\ N = 2
    /\ akind = 0
    /\ A = <<>> @@ (0 :> (0 :> 1 @@ 1 :> 2) @@ 1 :> (0 :> 3 @@ 1 :> 4))
    /\ B = <<>> @@ (0 :> (0 :> 1 @@ 1 :> 3) @@ 1 :> (0 :> 2 @@ 1 :> 4))

\* the call is of a transposer on a shape it handles
HandledCall ==
    \/ OwnShapeCall
    \/ (fn = "trans" /\ M > 0 /\ N > 0)

\* C7: during a call of a transposer on a shape it handles no cell of B is
\* read, every store is the first store to its cell, and at the return
\* every cell of B has been stored to exactly once.
C7_EveryCellWrittenOnce ==
    HandledCall
        => /\ nreadsB = 0
           /\ (bop # "none" => /\ bop = "write"
                               /\ InB(lastB[1], lastB[2])
                               /\ wcount[lastB[1]][lastB[2]] = 1)
           /\ (pc = "done" =>
                 /\ nwrites = M * N
                 /\ \A r \in 0 .. M - 1 : \A c \in 0 .. N - 1 : wcount[r][c] = 1)

C7_Witness ==
    /\ fn = "trans_32x32"
    /\ pc = "done"
    /\ M = 32 /\ N = 32
    /\ nwrites = 1024
    /\ wcount[9][9] = 1
    /\ wcount[9][10] = 1

\* the shapes the check on line 31 turns away
TurnedAway(m, n) ==
    \/ (m = 32 /\ n = 32)
    \/ (m = 32 /\ n = 64)

\* the compatibility check has rejected this call: its diagnostic is out
\* and the function has returned with nothing stored to B
RejectedByCompat ==
    /\ Emitted(CompatMsg)
    /\ pc = "done"
    /\ nwrites = 0
    /\ branch = "none"

\* C8 as stated: the compatibility check rejects exactly the three
\* supported shapes.
C8_RejectsExactlySupported ==
    (fn = "transpose_submit" /\ pc # "call" /\ M > 0 /\ N > 0)
        => (RejectedByCompat <=> Supported(M, N))

\* C8 amended: the compatibility check rejects exactly (M=32,N=32) and
\* (M=32,N=64); (M=64,N=64) and every other pair with M > 0, N > 0 pass it
\* without a diagnostic.
C8_RejectsExactlyM32 ==
    (fn = "transpose_submit" /\ pc # "call" /\ M > 0 /\ N > 0)
        => /\ RejectedByCompat <=> TurnedAway(M, N)
           /\ ~TurnedAway(M, N) => stderr = <<>>

C8_Witness ==
    /\ fn = "transpose_submit"
    /\ pc = "done"
    /\ M = 32 /\ N = 64
    /\ stderr = <<CompatMsg>>
    /\ nwrites = 0
    /\ BUnchanged

\* the last step stored to B from the body of the jj loop
InnerWrite == site = "inner" /\ bop = "write"
\* the last step stored to B from the statement after the jj loop
RowEndWrite == site = "rowend" /\ bop = "write"
\* the cell stored to lies in a diagonal tile
InDiagonalTile == TileBase(lastB[1]) = TileBase(lastB[2])

\* the inner pass never stores to a diagonal cell, and the statement after
\* it stores to diagonal cells only, so nothing of an off-diagonal tile is
\* deferred
DeferralSplit ==
    /\ InnerWrite => lastB[1] # lastB[2]
    /\ RowEndWrite => lastB[1] = lastB[2]
    /\ (pc = "done" => nwrites = M * N)

\* C9 as stated: diagonal cells are deferred to a pass that follows the
\* pass over the whole tile: when an off-diagonal cell of a diagonal tile
\* is stored, no diagonal cell of that tile has been stored yet.
C9_DiagonalAfterTile ==
    SquareCall
        => /\ DeferralSplit
           /\ (InnerWrite /\ InDiagonalTile)
                 => \A d \in TileRange(lastB[2]) : wcount[d][d] = 0

\* C9 amended: the diagonal cell B[ii][ii] is deferred to the end of row ii
\* of the tile, not to the end of the tile: when the inner pass stores an
\* off-diagonal cell B[jj][ii] of a diagonal tile, B[ii][ii] has not been
\* stored yet and the diagonal cells of the tile's earlier rows have; when
\* B[ii][ii] is stored, the other cells B[jj][ii] of the tile have been.
C9_DiagonalAfterRow ==
    SquareCall
        => /\ DeferralSplit
           /\ (InnerWrite /\ InDiagonalTile)
                 => /\ wcount[lastB[2]][lastB[2]] = 0
                    /\ \A d \in TileRange(lastB[2]) :
                          wcount[d][d] = (IF d < lastB[2] THEN 1 ELSE 0)
           /\ RowEndWrite
                 => /\ wcount[lastB[1]][lastB[1]] = 1
                    /\ \A x \in TileRange(lastB[1]) : wcount[x][lastB[1]] = 1

C9_Witness ==
    /\ fn = "trans_32x32"
    /\ M = 32 /\ N = 32
    /\ InnerWrite
    /\ lastB = <<8, 10>>
    /\ wcount[9][9] = 1
    /\ wcount[10][10] = 0
    /\ wcount[10][9] = 1

\* C10: every access A[r][c] has 0 <= r < N, 0 <= c < M and every access
\* B[r][c] has 0 <= r < M, 0 <= c < N, whatever M and N are; a tiled loop
\* nest runs only when N and M are multiples of its tile extents, and its
\* tile loops stay inside the matrix.
C10_AccessesInBounds ==
    /\ lastA # <<>> => InA(lastA[1], lastA[2])
    /\ lastB # <<>> => InB(lastB[1], lastB[2])
    /\ pc \in {"inner", "rowend"}
          => /\ N % CurTileRows = 0
             /\ M % CurTileCols = 0
             /\ i + CurTileRows <= N
             /\ j + CurTileCols <= M
             /\ InA(ii, j)
             /\ (pc = "inner" => InA(ii, jj))

C10_Witness ==
    /\ fn = "trans_32x64"
    /\ M = 32 /\ N = 64
    /\ pc = "inner"
    /\ i = 8 /\ j = 0
    /\ lastA = <<7, 31>>
    /\ lastB = <<31, 7>>
    /\ bop = "write"

====
